---- MODULE Spec2Model ----
(***************************************************************************)
(* Model of mac_battery_forensics.py: main() runs ensure_database_schema,  *)
(* get_battery_data_forensic and push_to_notion in sequence.               *)
(*                                                                         *)
(* Numbers.  The raw registry values are integers.  The rounded fields of  *)
(* battery_data are kept as scaled integers: voltage_v, power_watts,       *)
(* wear_level_pct, real_health_pct and real_percentage in hundredths       *)
(* (round(x, 2)), temperature_celsius in tenths (round(x, 1)).             *)
(* The calculations are kept exact, as fractions <<p, q>> with q > 0.      *)
(* Python's round() rounds the binary double it is handed.  When the exact *)
(* quotient lies half way between two decimals, the double that the code   *)
(* computed lies on one side of it or the other (or on it: half-to-even),  *)
(* which the inputs determine but integer arithmetic cannot tell.  tie_up  *)
(* holds, for this machine's document, the rounded fields whose tie goes   *)
(* up; away from a tie the nearest decimal is the only outcome.            *)
(***************************************************************************)
EXTENDS Integers, Sequences, FiniteSets, TLC

\* ------------------------------------------------------------------ bounds
MaxMissing == 2     \* documents miss (or keep) at most this many keys
MaxCap == 3         \* small capacities -1..MaxCap besides the named ones
MaxAdapters == 2    \* longest AppleRawAdapterDetails list
MaxClock == 1       \* wall-clock readings 0..MaxClock

\* ---------------------------------------------------------- Python helpers
None == [none |-> TRUE]

\* dict.get(key, default)
Get(d, key, default) == IF key \in DOMAIN d THEN d[key] ELSE default

Abs(x) == IF x < 0 THEN -x ELSE x

\* The fraction x = <<p, q>>, q > 0, lies half way between two integers.
IsTie(x) == 2 * (x[1] % x[2]) = x[2]

\* round(value, ndigits) of the fraction x (already scaled by 10^ndigits)
\* as an integer; up tells which way a tie goes.
Round(x, up) ==
    LET f == x[1] \div x[2]
        r == x[1] % x[2]
    IN  IF 2 * r < x[2] THEN f
        ELSE IF 2 * r > x[2] THEN f + 1
        ELSE IF up THEN f + 1 ELSE f

\* ------------------------------------------------------ the raw document
Keys == {"Serial", "DeviceName", "Manufacturer",
         "AppleRawMaxCapacity", "DesignCapacity", "NominalChargeCapacity",
         "CurrentCapacity", "AppleRawCurrentCapacity",
         "Voltage", "Amperage", "Temperature", "CycleCount",
         "TimeRemaining", "AvgTimeToEmpty", "InstantTimeToEmpty",
         "ExternalConnected", "IsCharging", "FullyCharged",
         "AppleRawAdapterDetails"}

\* An entry of the adapter-details list: a mapping (with or without a
\* "Watts" key) or something that is not a mapping.
AdapterDict(w) == [type |-> "dict", has_watts |-> TRUE, watts |-> w]
AdapterDictNoWatts == [type |-> "dict", has_watts |-> FALSE, watts |-> 0]
AdapterNotDict == [type |-> "string", has_watts |-> FALSE, watts |-> 0]
AdapterEntries == {AdapterDict(60), AdapterDict(96), AdapterDictNoWatts, AdapterNotDict}

SeqsUpTo(S, n) == UNION {[1..k -> S] : k \in 0..n}

\* Values of the "AppleRawAdapterDetails" key: a list, or not a list.
AdapterValues ==
    {[type |-> "list", items |-> s] : s \in SeqsUpTo(AdapterEntries, MaxAdapters)}
    \cup {[type |-> "integer", items |-> <<>>]}

CapValues == (-1..MaxCap) \cup {138, 960, 2000, 2700, 3000}
VoltageValues == {-12000, 0, 5, 12000}
AmperageValues == {-1500, 0, 1000, 1500}
TemperatureValues == {-255, -250, 0, 5, 3650, 3655}

\* The scenario document of the specification, every key present.
BaseDoc ==
    [k \in Keys |->
        CASE k = "Serial" -> "SN1"
          [] k = "DeviceName" -> "bq40z651"
          [] k = "Manufacturer" -> "SMP"
          [] k = "AppleRawMaxCapacity" -> 2700
          [] k = "DesignCapacity" -> 3000
          [] k = "NominalChargeCapacity" -> 2800
          [] k = "CurrentCapacity" -> 74
          [] k = "AppleRawCurrentCapacity" -> 2000
          [] k = "Voltage" -> 12000
          [] k = "Amperage" -> -1500
          [] k = "Temperature" -> 3650
          [] k = "CycleCount" -> 120
          [] k = "TimeRemaining" -> 95
          [] k = "AvgTimeToEmpty" -> 97
          [] k = "InstantTimeToEmpty" -> 90
          [] k = "ExternalConnected" -> TRUE
          [] k = "IsCharging" -> FALSE
          [] k = "FullyCharged" -> FALSE
          [] k = "AppleRawAdapterDetails" ->
                 [type |-> "list", items |-> <<AdapterDict(60)>>]]

Restrict(d, S) == [k \in S |-> d[k]]
Override(d, e) == [k \in DOMAIN d |-> IF k \in DOMAIN e THEN e[k] ELSE d[k]]

SmallSubsets == {m \in SUBSET Keys : Cardinality(m) <= MaxMissing}

\* Documents that miss a few keys, and documents that keep only a few.
DocsMissing ==
    {Restrict(BaseDoc, Keys \ m) : m \in SmallSubsets}
    \cup {Restrict(BaseDoc, m) : m \in SmallSubsets}

DocsCapacity ==
    {Override(BaseDoc, [DesignCapacity |-> d, AppleRawMaxCapacity |-> m,
                        AppleRawCurrentCapacity |-> c]) :
        d \in CapValues, m \in CapValues, c \in CapValues}

DocsStatus ==
    {Override(BaseDoc, [FullyCharged |-> fc, IsCharging |-> ic,
                        ExternalConnected |-> ec, AppleRawAdapterDetails |-> a]) :
        fc \in BOOLEAN, ic \in BOOLEAN, ec \in BOOLEAN, a \in AdapterValues}

DocsFlow ==
    {Override(BaseDoc, [Voltage |-> v, Amperage |-> a, Temperature |-> t,
                        FullyCharged |-> fc, IsCharging |-> ic]) :
        v \in VoltageValues, a \in AmperageValues, t \in TemperatureValues,
        fc \in BOOLEAN, ic \in BOOLEAN}

Docs == DocsMissing \cup DocsCapacity \cup DocsStatus \cup DocsFlow

\* An element of the parsed plist: a mapping, or not one.
DictItem(d) == [type |-> "dict", d |-> d]
NotDictItem == [type |-> "string", d |-> Restrict(BaseDoc, {})]

\* A mapping in which the value of key k is a string where the code expects
\* a number.  mistyped names that key; in d the string is stood for by -999,
\* which is never used as a number: RaisesTypeError tells where the code
\* would compute with it, and elsewhere the code only copies it.
MistypedItem(d, k) == [type |-> "dict", d |-> Override(d, k :> -999), mistyped |-> {k}]

MistypedKeys == {"Temperature", "Voltage", "Amperage", "DesignCapacity",
                 "AppleRawMaxCapacity", "AppleRawCurrentCapacity", "CycleCount"}

MistypedItems ==
    {MistypedItem(BaseDoc, k) : k \in MistypedKeys}
    \cup {MistypedItem(Override(BaseDoc, "Voltage" :> 0), "Amperage"),
          MistypedItem(Override(BaseDoc, "AppleRawMaxCapacity" :> 0),
                       "AppleRawCurrentCapacity")}

\* What subprocess.run + plistlib.loads deliver.  status: "ok", "nonzero"
\* (returncode != 0), "timeout" (TimeoutExpired), "invalid" (the payload
\* does not parse), "oserror" (ioreg cannot be started).  plist: a list of
\* items, or a single mapping.
QueryOk(p) == [status |-> "ok", plist |-> p]
PlistList(s) == [type |-> "list", items |-> s, d |-> Restrict(BaseDoc, {})]
PlistDict(d) == [type |-> "dict", items |-> <<>>, d |-> d]

Queries ==
    {QueryOk(PlistList(<<DictItem(d)>>)) : d \in Docs}
    \cup {QueryOk(PlistDict(d)) : d \in DocsMissing}
    \cup {QueryOk(PlistList(<<DictItem(d), DictItem(BaseDoc)>>)) : d \in DocsMissing}
    \cup {QueryOk(PlistList(<<>>)),
          QueryOk(PlistList(<<NotDictItem>>)),
          QueryOk(PlistList(<<NotDictItem, DictItem(BaseDoc)>>))}
    \cup {[status |-> s, plist |-> PlistList(<<>>)] : s \in {"nonzero", "timeout", "invalid"}}
    \cup {QueryOk(PlistList(<<i>>)) : i \in MistypedItems}
    \cup {[status |-> "oserror", plist |-> PlistList(<<>>)]}

\* ------------------------------------------- get_battery_data_forensic
\* `if not plist_data`: an empty list or an empty mapping is falsy.
NoBatteryData(plist) ==
    IF plist.type = "list" THEN plist.items = <<>> ELSE DOMAIN plist.d = {}

\* battery = plist_data[0] if isinstance(plist_data, list) else plist_data
FirstBattery(plist) ==
    IF plist.type = "list" THEN plist.items[1] ELSE DictItem(plist.d)

Serial(battery) == Get(battery, "Serial", "Unknown")
\* mutant: the manufacturer's default copied to the device name
DeviceName_WrongDefault(battery) == Get(battery, "DeviceName", "Apple Inc.")
DeviceName(battery) == Get(battery, "DeviceName", "Unknown")
Manufacturer(battery) == Get(battery, "Manufacturer", "Apple Inc.")

\* for adapter in adapter_details: if isinstance(adapter, dict): ...; break
RECURSIVE AdapterLoop(_, _)
AdapterLoop(items, i) ==
    IF i > Len(items) THEN 0
    ELSE IF items[i].type = "dict"
         THEN (IF items[i].has_watts THEN items[i].watts ELSE 0)
         ELSE AdapterLoop(items, i + 1)

\* mutant: adapter_details[0] taken without looking for the first mapping
AdapterWatts_FirstEntryOnly(battery) ==
    LET adapter_details ==
            Get(battery, "AppleRawAdapterDetails", [type |-> "list", items |-> <<>>])
    IN  IF adapter_details.type = "list" /\ adapter_details.items # <<>>
           /\ adapter_details.items[1].type = "dict"
           /\ adapter_details.items[1].has_watts
        THEN adapter_details.items[1].watts
        ELSE 0

AdapterWatts(battery) ==
    LET adapter_details ==
            Get(battery, "AppleRawAdapterDetails", [type |-> "list", items |-> <<>>])
    IN  IF adapter_details.type = "list" /\ adapter_details.items # <<>>
        THEN AdapterLoop(adapter_details.items, 1)
        ELSE 0

\* voltage_v = voltage_mv / 1000.0 if voltage_mv else 0, in hundredths
VoltageV(voltage_mv) ==
    IF voltage_mv # 0 THEN <<voltage_mv, 10>> ELSE <<0, 1>>

\* power_watts = (voltage_mv * abs(amperage_ma)) / 1_000_000
\*               if voltage_mv and amperage_ma else 0, in hundredths
PowerWatts(voltage_mv, amperage_ma) ==
    IF voltage_mv # 0 /\ amperage_ma # 0
    THEN <<voltage_mv * Abs(amperage_ma), 10000>>
    ELSE <<0, 1>>

\* mutant: the raw value taken for deci-Celsius (divided by 10.0)
TemperatureCelsius_DeciCelsius(temperature_raw) ==
    IF temperature_raw # 0 THEN <<temperature_raw, 1>> ELSE <<0, 1>>

\* temperature_celsius = temperature_raw / 100.0 if temperature_raw else 0.0,
\* in tenths
TemperatureCelsius(temperature_raw) ==
    IF temperature_raw # 0 THEN <<temperature_raw, 10>> ELSE <<0, 1>>

\* mutant: the guard written `design_capacity != 0`
WearLevel_NonZeroGuard(apple_raw_max_capacity, design_capacity) ==
    IF design_capacity > 0
    THEN <<10000 * (design_capacity - apple_raw_max_capacity), design_capacity>>
    ELSE IF design_capacity < 0
    THEN <<10000 * (apple_raw_max_capacity - design_capacity), -design_capacity>>
    ELSE <<0, 1>>

\* mutant: the `100.0 -` dropped, wear computed as the health ratio
WearLevel_NoComplement(apple_raw_max_capacity, design_capacity) ==
    IF design_capacity > 0
    THEN <<10000 * apple_raw_max_capacity, design_capacity>>
    ELSE <<0, 1>>

\* wear_level = 100.0 - ((apple_raw_max_capacity / design_capacity) * 100.0)
\* if design_capacity > 0, else 0.0; in hundredths
WearLevel(apple_raw_max_capacity, design_capacity) ==
    IF design_capacity > 0
    THEN <<10000 * (design_capacity - apple_raw_max_capacity), design_capacity>>
    ELSE <<0, 1>>

\* real_health_pct = (apple_raw_max_capacity / design_capacity) * 100.0
\* if design_capacity > 0, else 0.0; in hundredths
RealHealthPct(apple_raw_max_capacity, design_capacity) ==
    IF design_capacity > 0
    THEN <<10000 * apple_raw_max_capacity, design_capacity>>
    ELSE <<0, 1>>

\* real_percentage = (apple_raw_current_capacity / apple_raw_max_capacity)
\* * 100.0 if apple_raw_max_capacity > 0, else 0.0; in hundredths
RealPercentage(apple_raw_current_capacity, apple_raw_max_capacity) ==
    IF apple_raw_max_capacity > 0
    THEN <<10000 * apple_raw_current_capacity, apple_raw_max_capacity>>
    ELSE <<0, 1>>

\* mutant: is_charging tested before fully_charged
ChargingStatus_ChargingFirst(fully_charged, is_charging, external_connected) ==
    IF is_charging THEN "Charging"
    ELSE IF fully_charged THEN "Fully Charged"
    ELSE IF external_connected THEN "Not Charging"
    ELSE "Discharging"

ChargingStatus(fully_charged, is_charging, external_connected) ==
    IF fully_charged THEN "Fully Charged"
    ELSE IF is_charging THEN "Charging"
    ELSE IF external_connected THEN "Not Charging"
    ELSE "Discharging"

\* mutant: the time captured once, when the module was loaded
Timestamp_AtImport(now) == [iso |-> 0]

\* datetime.now().isoformat()
Timestamp(now) == [iso |-> now]

\* The unrounded calculations of one mapping, by the field they end in.
Calculations(battery) ==
    LET apple_raw_max_capacity == Get(battery, "AppleRawMaxCapacity", 0)
        design_capacity == Get(battery, "DesignCapacity", 0)
    IN  [voltage_v |-> VoltageV(Get(battery, "Voltage", 0)),
         power_watts |-> PowerWatts(Get(battery, "Voltage", 0),
                                    Get(battery, "Amperage", 0)),
         temperature_celsius |-> TemperatureCelsius(Get(battery, "Temperature", 0)),
         wear_level_pct |-> WearLevel(apple_raw_max_capacity, design_capacity),
         real_health_pct |-> RealHealthPct(apple_raw_max_capacity, design_capacity),
         real_percentage |->
             RealPercentage(Get(battery, "AppleRawCurrentCapacity", 0),
                            apple_raw_max_capacity)]

RoundedFields == {"voltage_v", "power_watts", "temperature_celsius",
                  "wear_level_pct", "real_health_pct", "real_percentage"}

\* The battery_data dictionary the function builds from one mapping; ups
\* is the set of rounded fields whose tie, if any, goes up.
BatteryData(battery, now, ups) ==
    LET calc == Calculations(battery)
        external_connected == Get(battery, "ExternalConnected", FALSE)
        is_charging == Get(battery, "IsCharging", FALSE)
        fully_charged == Get(battery, "FullyCharged", FALSE)
    IN  [serial |-> Serial(battery),
         device_name |-> DeviceName(battery),
         manufacturer |-> Manufacturer(battery),
         design_capacity_mah |-> Get(battery, "DesignCapacity", 0),
         current_max_capacity_mah |-> Get(battery, "AppleRawMaxCapacity", 0),
         nominal_charge_capacity_mah |-> Get(battery, "NominalChargeCapacity", 0),
         current_capacity_pct |-> Get(battery, "CurrentCapacity", 0),
         raw_current_capacity_mah |-> Get(battery, "AppleRawCurrentCapacity", 0),
         voltage_mv |-> Get(battery, "Voltage", 0),
         voltage_v |-> Round(calc.voltage_v, "voltage_v" \in ups),
         amperage_ma |-> Get(battery, "Amperage", 0),
         power_watts |-> Round(calc.power_watts, "power_watts" \in ups),
         adapter_watts |-> AdapterWatts(battery),
         temperature_raw |-> Get(battery, "Temperature", 0),
         temperature_celsius |->
             Round(calc.temperature_celsius, "temperature_celsius" \in ups),
         cycle_count |-> Get(battery, "CycleCount", 0),
         wear_level_pct |-> Round(calc.wear_level_pct, "wear_level_pct" \in ups),
         real_health_pct |-> Round(calc.real_health_pct, "real_health_pct" \in ups),
         real_percentage |-> Round(calc.real_percentage, "real_percentage" \in ups),
         time_remaining_min |-> Get(battery, "TimeRemaining", 0),
         avg_time_to_empty_min |-> Get(battery, "AvgTimeToEmpty", 0),
         instant_time_to_empty_min |-> Get(battery, "InstantTimeToEmpty", 0),
         external_connected |-> external_connected,
         is_charging |-> is_charging,
         fully_charged |-> fully_charged,
         charging_status |->
             ChargingStatus(fully_charged, is_charging, external_connected),
         timestamp |-> Timestamp(now)]

\* The query returned a mapping that the field extraction can read; every
\* other outcome ends in `return None` (an early return or an except clause).
ReachesExtraction(q) ==
    /\ q.status = "ok"
    /\ ~NoBatteryData(q.plist)
    /\ FirstBattery(q.plist).type = "dict"

\* The keys of a mapping whose value is a string instead of a number.
Mistyped(item) == IF "mistyped" \in DOMAIN item THEN item.mistyped ELSE {}

\* Arithmetic or an ordering comparison meets a string (TypeError), in the
\* order the code evaluates: line 229 (a non-empty string is truthy), 256,
\* 257 (only when voltage_mv is truthy), 261, 262 or 271, 272 (only when
\* apple_raw_max_capacity > 0).  The other keys are only copied.
RaisesTypeError(item) ==
    \/ "Temperature" \in Mistyped(item)
    \/ "Voltage" \in Mistyped(item)
    \/ "Amperage" \in Mistyped(item) /\ Get(item.d, "Voltage", 0) # 0
    \/ "DesignCapacity" \in Mistyped(item)
    \/ "AppleRawMaxCapacity" \in Mistyped(item)
    \/ "AppleRawCurrentCapacity" \in Mistyped(item)
          /\ Get(item.d, "AppleRawMaxCapacity", 0) > 0

\* The exception raised inside the try block, "none" if the body returns.
Raised(q) ==
    IF q.status = "timeout" THEN "TimeoutExpired"
    ELSE IF q.status = "oserror" THEN "OSError"
    ELSE IF q.status = "nonzero" THEN "none"
    ELSE IF q.status = "invalid" THEN "InvalidFileException"
    ELSE IF NoBatteryData(q.plist) THEN "none"
    ELSE IF FirstBattery(q.plist).type # "dict" THEN "AttributeError"
    ELSE IF RaisesTypeError(FirstBattery(q.plist)) THEN "TypeError"
    ELSE "none"

ExceptionClasses == {"TimeoutExpired", "InvalidFileException", "OSError",
                     "AttributeError", "TypeError"}

\* mutant: the handlers without the final `except Exception`
Handled_NoCatchAll(e) == e \in {"TimeoutExpired", "InvalidFileException"}

\* The except clauses of lines 333-341: TimeoutExpired, InvalidFileException
\* and, last, every Exception.
Handled(e) ==
    \/ e = "TimeoutExpired"
    \/ e = "InvalidFileException"
    \/ e \in ExceptionClasses

\* The body runs to `return battery_data`.
ReturnsRecord(q) == ReachesExtraction(q) /\ Raised(q) = "none"

\* The value get_battery_data_forensic returns.
GetBatteryDataForensic(q, now, ups) ==
    IF ReturnsRecord(q) THEN BatteryData(FirstBattery(q.plist).d, now, ups)
    ELSE None

\* The rounded fields whose unrounded value is a tie for this query.
TieFields(q) ==
    IF ReturnsRecord(q)
    THEN {f \in RoundedFields : IsTie(Calculations(FirstBattery(q.plist).d)[f])}
    ELSE {}

\* ------------------------------------------------------------------ main
\* mutant: main without the None check
AfterExtraction_NoCheck(data) == "publish"

\* `if battery_data is None: return 1`
AfterExtraction(data) == IF data = None THEN "done" ELSE "publish"

\* Responses of the Notion API to push_to_notion's POST; "skipped" when a
\* credential is missing and no request is sent.
PushOutcomes == {"200", "401", "404", "4xx5xx", "2xx3xx", "timeout",
                 "connection_error", "request_exception", "exception"}
PushSuccess(o) == o \in {"200", "2xx3xx"}

\* What requests.patch does at line 146: a response with a status code, an
\* exception of the RequestException family, or an exception outside it (the
\* Authorization header built from NOTION_API_KEY at line 76 is encoded as
\* latin-1 when the request is sent; a key with a character outside latin-1
\* raises UnicodeEncodeError, a ValueError).
SchemaOutcomes == {"200", "403", "other", "request_exception", "exception"}

\* The only except clause of ensure_database_schema (line 164).
SchemaHandled(o) == o # "exception"

\* Lines 659-667 of main: the exit code after push_to_notion returned.
MainExit(s) == IF s THEN <<0>> ELSE <<1>>

VARIABLES
    pc,             \* where main is: "schema", "extract", "publish", "done";
                    \* "crashed" when an exception left main
    query,          \* what the ioreg query delivers on this machine
    tie_up,         \* rounded fields whose tie the double arithmetic takes up
    has_api_key,    \* NOTION_API_KEY is set
    has_database_id,\* NOTION_DATABASE_ID is set
    schema_ok,      \* <<result>> of ensure_database_schema, <<>> before
    battery_data,   \* result of get_battery_data_forensic (None before)
    calculated,     \* the calculations section (line 253 on) was entered
    now_read,       \* <<value>> datetime.now() returned at line 321
    push_calls,     \* invocations of push_to_notion
    success,        \* <<result>> of push_to_notion, <<>> before
    exit_code,      \* <<return value>> of main, <<>> while running
    clock,          \* the wall clock
    run,            \* which invocation of the script this is
    prev_data,      \* battery_data of the previous invocation
    prev_now,       \* now_read of the previous invocation
    calls,          \* the functions main has called, in order
    uncaught        \* the function an exception escaped from, "none" if none

vars == <<pc, query, tie_up, has_api_key, has_database_id, schema_ok, battery_data,
          calculated, now_read, push_calls, success, exit_code, clock, run,
          prev_data, prev_now, calls, uncaught>>

Init ==
    /\ pc = "schema"
    /\ query \in Queries
    /\ tie_up \in SUBSET TieFields(query)
    /\ has_api_key \in BOOLEAN
    /\ has_database_id \in BOOLEAN
    /\ schema_ok = <<>>
    /\ battery_data = None
    /\ calculated = FALSE
    /\ now_read = <<>>
    /\ push_calls = 0
    /\ success = <<>>
    /\ exit_code = <<>>
    /\ clock = 0
    /\ run = 1
    /\ prev_data = None
    /\ prev_now = <<>>
    /\ calls = <<>>
    /\ uncaught = "none"

\* Step 0: ensure_database_schema(); its result is discarded by main.
EnsureDatabaseSchema ==
    /\ pc = "schema"
    /\ calls' = Append(calls, "ensure_database_schema")
    /\ IF ~has_api_key \/ ~has_database_id
       THEN /\ schema_ok' = <<FALSE>>
            /\ pc' = "extract"
            /\ UNCHANGED uncaught
       ELSE \E o \in SchemaOutcomes :
              IF SchemaHandled(o)
              THEN /\ schema_ok' = <<o = "200">>
                   /\ pc' = "extract"
                   /\ UNCHANGED uncaught
              ELSE /\ pc' = "crashed"
                   /\ uncaught' = "ensure_database_schema"
                   /\ UNCHANGED schema_ok
    /\ UNCHANGED <<query, tie_up, has_api_key, has_database_id, battery_data, calculated,
                   now_read, push_calls, success, exit_code, clock, run, prev_data,
                   prev_now>>

\* Step 1: battery_data = get_battery_data_forensic(), then main's check.
GetBatteryData ==
    /\ pc = "extract"
    /\ calls' = Append(calls, "get_battery_data_forensic")
    /\ \E now \in clock..MaxClock :
         /\ clock' = now
         /\ IF Raised(query) # "none" /\ ~Handled(Raised(query))
            THEN /\ pc' = "crashed"
                 /\ uncaught' = "get_battery_data_forensic"
                 /\ UNCHANGED <<battery_data, exit_code>>
            ELSE LET data == GetBatteryDataForensic(query, now, tie_up)
                 IN  /\ UNCHANGED uncaught
                     /\ battery_data' = data
                     /\ pc' = AfterExtraction(data)
                     /\ exit_code' = IF AfterExtraction(data) = "done"
                                     THEN <<1>> ELSE <<>>
         /\ calculated' = (ReachesExtraction(query)
                              /\ "Temperature" \notin Mistyped(FirstBattery(query.plist)))
         /\ now_read' = IF ReturnsRecord(query) THEN <<now>> ELSE <<>>
    /\ UNCHANGED <<query, tie_up, has_api_key, has_database_id, schema_ok, push_calls,
                   success, run, prev_data, prev_now>>

\* Step 2: success = push_to_notion(battery_data), then main's exit code.
PushToNotion ==
    /\ pc = "publish"
    /\ calls' = Append(calls, "push_to_notion")
    /\ push_calls' = push_calls + 1
    /\ IF ~has_api_key \/ ~has_database_id
       THEN success' = <<FALSE>>
       ELSE \E o \in PushOutcomes : success' = <<PushSuccess(o)>>
    /\ exit_code' = MainExit(success'[1])
    /\ pc' = "done"
    /\ UNCHANGED <<query, tie_up, has_api_key, has_database_id, schema_ok, battery_data,
                   calculated, now_read, clock, run, prev_data,
                   prev_now, uncaught>>

Next == EnsureDatabaseSchema \/ GetBatteryData \/ PushToNotion

Spec == Init /\ [][Next]_vars

\* The script is started a second time on the same machine, the registry
\* unchanged; the first invocation's result is kept for comparison.
Reinvoke ==
    /\ pc = "done"
    /\ run = 1
    /\ run' = 2
    /\ prev_data' = battery_data
    /\ prev_now' = now_read
    /\ pc' = "schema"
    /\ schema_ok' = <<>>
    /\ battery_data' = None
    /\ calculated' = FALSE
    /\ now_read' = <<>>
    /\ push_calls' = 0
    /\ success' = <<>>
    /\ exit_code' = <<>>
    /\ calls' = <<>>
    /\ UNCHANGED <<query, tie_up, has_api_key, has_database_id, clock, uncaught>>

NextTwice == Next \/ Reinvoke

SpecTwice == Init /\ [][NextTwice]_vars

\* ---------------------------------------------------------------- claims
\* get_battery_data_forensic has returned in this invocation.
Returned == pc \in {"publish", "done"}
HasRecord == Returned /\ battery_data # None

\* The mapping the fields are read from (when there is one).
Doc == FirstBattery(query.plist).d

\* Every value of the mapping has the type the code expects.
WellTyped == Mistyped(FirstBattery(query.plist)) = {}

\* x is a nearest integer to p / q (q > 0).
Nearest(x, p, q) == 2 * Abs(x * q - p) <= q

\* C1: the charging status is 'Fully Charged' if fully_charged, else
\* 'Charging' if is_charging, else 'Not Charging' if external_connected, else
\* 'Discharging', for all 8 combinations of the three flags and whatever the
\* other fields are.
C1_ChargingStatusPriority ==
    HasRecord =>
        LET fc == Get(Doc, "FullyCharged", FALSE)
            ic == Get(Doc, "IsCharging", FALSE)
            ec == Get(Doc, "ExternalConnected", FALSE)
            st == battery_data.charging_status
        IN  /\ st \in {"Fully Charged", "Charging", "Not Charging", "Discharging"}
            /\ fc => st = "Fully Charged"
            /\ ~fc /\ ic => st = "Charging"
            /\ ~fc /\ ~ic /\ ec => st = "Not Charging"
            /\ ~fc /\ ~ic /\ ~ec => st = "Discharging"

C1_Witness ==
    /\ HasRecord
    /\ battery_data.fully_charged /\ battery_data.is_charging
    /\ battery_data.charging_status = "Fully Charged"

\* C2: a ratio whose denominator is <= 0 yields 0.0 and extraction still
\* returns a record: design_capacity <= 0 gives wear_level_pct = 0.0 and
\* real_health_pct = 0.0, raw max capacity <= 0 gives real_percentage = 0.0.
C2_SafeZeroDenominator ==
    (Returned /\ ReachesExtraction(query) /\ WellTyped) =>
        /\ battery_data # None
        /\ Get(Doc, "DesignCapacity", 0) <= 0 =>
              battery_data.wear_level_pct = 0 /\ battery_data.real_health_pct = 0
        /\ Get(Doc, "AppleRawMaxCapacity", 0) <= 0 =>
              battery_data.real_percentage = 0

C2_Witness ==
    /\ HasRecord
    /\ "DesignCapacity" \in DOMAIN Doc /\ Doc["DesignCapacity"] = 0
    /\ "AppleRawMaxCapacity" \in DOMAIN Doc /\ Doc["AppleRawMaxCapacity"] = 0
    /\ battery_data.wear_level_pct = 0
    /\ battery_data.real_health_pct = 0
    /\ battery_data.real_percentage = 0

\* The field of battery_data each key of the raw mapping ends in.
FieldOf ==
    [k \in Keys |->
        CASE k = "Serial" -> "serial"
          [] k = "DeviceName" -> "device_name"
          [] k = "Manufacturer" -> "manufacturer"
          [] k = "AppleRawMaxCapacity" -> "current_max_capacity_mah"
          [] k = "DesignCapacity" -> "design_capacity_mah"
          [] k = "NominalChargeCapacity" -> "nominal_charge_capacity_mah"
          [] k = "CurrentCapacity" -> "current_capacity_pct"
          [] k = "AppleRawCurrentCapacity" -> "raw_current_capacity_mah"
          [] k = "Voltage" -> "voltage_mv"
          [] k = "Amperage" -> "amperage_ma"
          [] k = "Temperature" -> "temperature_raw"
          [] k = "CycleCount" -> "cycle_count"
          [] k = "TimeRemaining" -> "time_remaining_min"
          [] k = "AvgTimeToEmpty" -> "avg_time_to_empty_min"
          [] k = "InstantTimeToEmpty" -> "instant_time_to_empty_min"
          [] k = "ExternalConnected" -> "external_connected"
          [] k = "IsCharging" -> "is_charging"
          [] k = "FullyCharged" -> "fully_charged"
          [] k = "AppleRawAdapterDetails" -> "adapter_watts"]

StringKeys == {"Serial", "DeviceName", "Manufacturer"}
BooleanKeys == {"ExternalConnected", "IsCharging", "FullyCharged"}

\* An omitted key's field holds: 0 (numeric), false (flag), or the string
\* named for the key.
OmittedTakeDefaults(string_default) ==
    \A k \in Keys \ DOMAIN Doc :
        IF k \in StringKeys THEN battery_data[FieldOf[k]] = string_default[k]
        ELSE IF k \in BooleanKeys THEN battery_data[FieldOf[k]] = FALSE
        ELSE battery_data[FieldOf[k]] = 0

\* The query delivered a mapping, alone or as the first item of a list.
DeliversMapping ==
    /\ query.status = "ok"
    /\ \/ query.plist.type = "dict"
       \/ query.plist.items # <<>> /\ query.plist.items[1].type = "dict"
    /\ WellTyped

\* C3 as claimed: for a raw document that is a mapping missing any subset of
\* the keys, extraction does not fail and every omitted field takes its
\* default: 0, false, and "Unknown" for serial, device name and manufacturer.
C3_Original ==
    (Returned /\ DeliversMapping) =>
        /\ battery_data # None
        /\ OmittedTakeDefaults([k \in StringKeys |-> "Unknown"])

\* C3 as amended: the omitted manufacturer defaults to "Apple Inc." (serial
\* and device name to "Unknown"), and extraction does not fail unless the
\* query result is itself an empty mapping, which counts as no battery data.
C3_DefaultsForOmittedKeys ==
    /\ (Returned /\ DeliversMapping
          /\ ~(query.plist.type = "dict" /\ DOMAIN query.plist.d = {}))
        => /\ battery_data # None
           /\ OmittedTakeDefaults(
                  [k \in StringKeys |->
                      IF k = "Manufacturer" THEN "Apple Inc." ELSE "Unknown"])
    /\ (Returned /\ DeliversMapping
          /\ query.plist.type = "dict" /\ DOMAIN query.plist.d = {})
        => battery_data = None

C3_Witness ==
    /\ HasRecord
    /\ DOMAIN Doc = {}
    /\ battery_data.serial = "Unknown"
    /\ battery_data.manufacturer = "Apple Inc."
    /\ battery_data.design_capacity_mah = 0
    /\ ~battery_data.is_charging

\* C4 as claimed: power_watts is never negative and is
\* |voltage_mv * amperage_ma| / 1,000,000 rounded to 2 decimals, whatever the
\* signs of voltage_mv and amperage_ma.
C4_PowerMagnitude ==
    (HasRecord /\ WellTyped) =>
        /\ battery_data.power_watts >= 0
        /\ Nearest(battery_data.power_watts,
                   Abs(battery_data.voltage_mv * battery_data.amperage_ma), 10000)

\* The query delivered an empty sequence, or an empty document.
EmptyQuery == query.status = "ok" /\ NoBatteryData(query.plist)

\* C5: when the query yields an empty document sequence (or no document),
\* extraction returns no record, the calculations and push_to_notion are
\* never invoked in that run, and main returns 1.
C5_NoDeviceFound ==
    EmptyQuery =>
        /\ battery_data = None
        /\ ~calculated
        /\ push_calls = 0
        /\ pc # "publish"
        /\ Returned => pc = "done" /\ exit_code = <<1>>

C5_Witness ==
    /\ query.status = "ok" /\ query.plist.type = "list" /\ query.plist.items = <<>>
    /\ pc = "done"
    /\ exit_code = <<1>>
    /\ push_calls = 0

\* C6 as claimed: real_health_pct = 100 - wear_level_pct for every record,
\* design_capacity <= 0 included.
C6_Original ==
    HasRecord => battery_data.real_health_pct = 10000 - battery_data.wear_level_pct

\* C6 as amended: when design_capacity > 0, real_health_pct and
\* 100 - wear_level_pct are two roundings of the same value: they differ by at
\* most 0.01, and are equal unless raw max / design * 100 lies half way
\* between two 2-decimal values; when design_capacity <= 0 both are 0.0.
C6_HealthComplementsWear ==
    HasRecord =>
        LET d == battery_data.design_capacity_mah
            m == battery_data.current_max_capacity_mah
            h == battery_data.real_health_pct
            w == battery_data.wear_level_pct
        IN  IF d > 0
            THEN /\ Abs(h + w - 10000) <= 1
                 /\ 2 * ((10000 * m) % d) # d => h + w = 10000
            ELSE h = 0 /\ w = 0

C6_Witness ==
    /\ HasRecord
    /\ battery_data.design_capacity_mah = 960
    /\ battery_data.current_max_capacity_mah = 138
    /\ battery_data.real_health_pct = 1437
    /\ battery_data.wear_level_pct = 8562

\* C7 as claimed: for positive capacities the derived values are the
\* reference formulas rounded to 2 decimals, power_watts being
\* |voltage_mv * amperage_ma| / 1e6; the scenario document gives 90.00, 10.00,
\* 74.07, 18.00 W, 12.00 V and 'Not Charging'.
C7_ReferenceFormulas ==
    (HasRecord /\ WellTyped) =>
        LET d == battery_data.design_capacity_mah
            m == battery_data.current_max_capacity_mah
            c == battery_data.raw_current_capacity_mah
            v == battery_data.voltage_mv
            a == battery_data.amperage_ma
        IN  /\ (d > 0 /\ m > 0 /\ c > 0) =>
                /\ Nearest(battery_data.real_health_pct, 10000 * m, d)
                /\ Nearest(battery_data.wear_level_pct, 10000 * (d - m), d)
                /\ Nearest(battery_data.real_percentage, 10000 * c, m)
                /\ Nearest(battery_data.voltage_v, v, 10)
                /\ Nearest(battery_data.power_watts, Abs(v * a), 10000)
            /\ Doc = BaseDoc =>
                /\ battery_data.real_health_pct = 9000
                /\ battery_data.wear_level_pct = 1000
                /\ battery_data.real_percentage = 7407
                /\ battery_data.power_watts = 1800
                /\ battery_data.voltage_v = 1200
                /\ battery_data.charging_status = "Not Charging"

\* The adapter wattage C8 describes, read off the raw mapping.
FirstMappingWatts ==
    LET a == Get(Doc, "AppleRawAdapterDetails", [type |-> "absent", items |-> <<>>])
        mappings == {i \in 1..Len(a.items) : a.items[i].type = "dict"}
    IN  IF a.type # "list" \/ mappings = {} THEN 0
        ELSE LET first == CHOOSE i \in mappings : \A j \in mappings : i <= j
             IN  IF a.items[first].has_watts THEN a.items[first].watts ELSE 0

\* C8: adapter wattage is the 'Watts' of the first list entry that is a
\* mapping (0 if that mapping has no 'Watts', later entries never consulted);
\* it is 0, and extraction does not fail, when the key is absent, not a list,
\* empty, or without a mapping entry.
C8_AdapterWatts ==
    (Returned /\ ReachesExtraction(query) /\ WellTyped) =>
        /\ battery_data # None
        /\ battery_data.adapter_watts = FirstMappingWatts

C8_Witness ==
    /\ HasRecord
    /\ "AppleRawAdapterDetails" \in DOMAIN Doc
    /\ Doc["AppleRawAdapterDetails"].items = <<AdapterNotDict, AdapterDict(96)>>
    /\ battery_data.adapter_watts = 96

\* Both invocations returned a record (from the same registry contents).
BothReturned == run = 2 /\ HasRecord /\ prev_data # None

\* C9 as claimed: two derivations from an identical record produce identical
\* metrics in every field, the timestamp included; no time source is read
\* other than a clock the caller supplies.
C9_Original == BothReturned => battery_data = prev_data

\* C9 as amended: the function takes no clock; it reads the wall clock
\* itself and stamps the record with that reading.  Two derivations from an
\* identical record agree in every field except the timestamp, and agree in
\* the timestamp exactly when the two wall-clock readings are the same.
C9_DeterministicButForWallClock ==
    /\ HasRecord => battery_data.timestamp = [iso |-> now_read[1]]
    /\ BothReturned =>
        /\ [battery_data EXCEPT !.timestamp = prev_data.timestamp] = prev_data
        /\ (battery_data = prev_data) <=> (now_read = prev_now)

C9_Witness ==
    /\ BothReturned
    /\ now_read # prev_now
    /\ battery_data.timestamp # prev_data.timestamp

\* C10: temperature_raw is the document's 'Temperature' unmodified, and
\* temperature_celsius is temperature_raw / 100 rounded to 1 decimal, for
\* zero and negative values as well; 3650 gives 36.5.
C10_Temperature ==
    HasRecord =>
        LET raw == Get(Doc, "Temperature", 0)
        IN  /\ battery_data.temperature_raw = raw
            /\ Nearest(battery_data.temperature_celsius, raw, 10)
            /\ raw = 3650 => battery_data.temperature_celsius = 365
            /\ raw = 0 => battery_data.temperature_celsius = 0
            /\ raw = -250 => battery_data.temperature_celsius = -25

C10_Witness ==
    /\ HasRecord
    /\ battery_data.temperature_raw = 3650
    /\ battery_data.temperature_celsius = 365

\* The keys of the dictionary built at lines 285-322.
DocumentedFields ==
    {"serial", "device_name", "manufacturer",
     "design_capacity_mah", "current_max_capacity_mah", "nominal_charge_capacity_mah",
     "current_capacity_pct", "raw_current_capacity_mah",
     "voltage_mv", "voltage_v", "amperage_ma", "power_watts", "adapter_watts",
     "temperature_raw", "temperature_celsius",
     "cycle_count", "wear_level_pct", "real_health_pct", "real_percentage",
     "time_remaining_min", "avg_time_to_empty_min", "instant_time_to_empty_min",
     "external_connected", "is_charging", "fully_charged", "charging_status",
     "timestamp"}

\* The failures C11 lists: the query tool exits non-zero, times out or cannot
\* be run, the payload does not parse, the result is empty, or the document
\* is not a mapping of the known shape (not a mapping at all, or one with a
\* string where the code computes with a number).
FailureCause ==
    \/ query.status \in {"nonzero", "timeout", "oserror", "invalid"}
    \/ /\ query.status = "ok"
       /\ \/ NoBatteryData(query.plist)
          \/ FirstBattery(query.plist).type # "dict"
          \/ RaisesTypeError(FirstBattery(query.plist))

\* C11: extraction is all-or-nothing.  get_battery_data_forensic returns
\* either no record, on each of the listed failures, or a record holding
\* every documented field; never a partial record, and no failure leaves the
\* function as an uncaught exception.
C11_AllOrNothing ==
    /\ uncaught # "get_battery_data_forensic"
    /\ ~Returned => battery_data = None
    /\ Returned =>
        IF FailureCause THEN battery_data = None
        ELSE DOMAIN battery_data = DocumentedFields

C11_Witness ==
    /\ Returned
    /\ Raised(query) = "TypeError"
    /\ "AppleRawCurrentCapacity" \in Mistyped(FirstBattery(query.plist))
    /\ battery_data = None
    /\ exit_code = <<1>>

\* main has ended: it returned, or an exception left it.
MainEnded == pc \in {"done", "crashed"}

MainSteps == <<"ensure_database_schema", "get_battery_data_forensic", "push_to_notion">>

\* C12: in every run of main the steps occur in the order schema
\* provisioning, extraction, publish; whatever schema provisioning does,
\* extraction is called and the exit code does not depend on it; the
\* publisher is called at most once and only with a record; main returns 0
\* exactly when extraction returned a record and the publisher reported
\* success, and 1 otherwise.
C12_MainTiers ==
    /\ Len(calls) <= 3
    /\ calls = SubSeq(MainSteps, 1, Len(calls))
    /\ MainEnded => Len(calls) >= 2
    /\ push_calls <= 1
    /\ push_calls = 1 <=> Len(calls) = 3
    /\ push_calls = 1 => battery_data # None
    /\ MainEnded =>
         exit_code = IF battery_data # None /\ success = <<TRUE>> THEN <<0>> ELSE <<1>>

====
